---- MODULE Spec2Model ----
(***************************************************************************)
(* Verification model of the FounderOS knowledge-base core:                *)
(*   app/services/documents.py  (upload, delete, process_document)         *)
(*   app/services/chat.py       (_retrieve_relevant_chunks,                *)
(*                               send_message_streaming)                   *)
(* The relational store is modelled by its committed rows.  A commit is    *)
(* one atomic step; the awaits between commits are interleaving points.    *)
(***************************************************************************)
EXTENDS Integers, Sequences, FiniteSets, TLC

\* ---------------------------------------------------------------- bounds
MaxDocs == 2          \* document ids ever created
MaxRuns == 2          \* process_document invocations
MaxChunks == 2        \* chunks the chunker yields for one document
MaxQuery == 0         \* query vectors range over 0..MaxQuery
MaxTopK == 2          \* top_k arguments tried against the retriever
MaxConvs == 1         \* conversations ever created
MaxTurns == 2         \* send_message_streaming calls
MaxTokens == 2        \* tokens the generation provider streams in one turn
MaxTextLen == 6       \* characters of a text given to _chunk_text
MaxTarget == 3        \* target_tokens arguments range over 1..MaxTarget
MaxTexts == 201
MaxHistory == 11       \* texts given to one call of _generate_embeddings

\* ------------------------------------------------------- program constants
TOP_K_CHUNKS == 5
SNIPPET_CHARS == 200
ERROR_MESSAGE_CHARS == 500
TITLE_CHARS == 100
HISTORY_MESSAGES == 10
BATCH_SIZE == 100

DocIds == 1..MaxDocs
RunIds == 1..MaxRuns
ConvIds == 1..MaxConvs
TurnIds == 1..MaxTurns
Workspaces == {"w1", "w2"}
\* what an uploaded file holds: bytes that do not decode, whitespace only,
\* text the tokenizer rejects, or text that chunks into n >= 1 chunks
Uploads ==
  {[filename |-> "scan.pdf", kind |-> "undecodable", chunks |-> 0],
   [filename |-> "blank.txt", kind |-> "blank", chunks |-> 0],
   [filename |-> "dump.log", kind |-> "untokenizable", chunks |-> 0]}
    \cup {[filename |-> "notes.md", kind |-> "text", chunks |-> n] : n \in 1..MaxChunks}
NoFile == [filename |-> "", kind |-> "missing", chunks |-> 0]

\* A string is a sequence of pieces; a piece is a run of characters named by
\* what it is (kind, id) and how many characters of it are there.
Piece(kind, id, len) == [kind |-> kind, id |-> id, len |-> len]
Literal(id, len) == <<Piece("literal", id, len)>>

\* filename.rsplit(".", 1)[0]
Title(filename) ==
  CASE filename = "scan.pdf" -> <<Piece("name", 1, 4)>>
    [] filename = "blank.txt" -> <<Piece("name", 2, 5)>>
    [] filename = "dump.log" -> <<Piece("name", 3, 4)>>
    [] filename = "notes.md" -> <<Piece("name", 4, 5)>>
    [] filename = "SLIDES.PDF" -> <<Piece("name", 5, 6)>>
    [] OTHER -> <<Piece("name", 0, 8)>>

\* text of the i-th chunk of a document: the second chunk on is longer than a snippet
ChunkText(i) == <<Piece("chunk", i, 150 * i)>>
DOCUMENT_STATUSES == {"queued", "processing", "ready", "failed"}

\* a nullable column holds None or Some(value)
None == <<>>
Some(x) == <<x>>
NoDoc == [absent |-> TRUE]
NoResponse == [op |-> "none"]
NoConv == [absent |-> TRUE]
\* a conversation row that was deleted: its id is never given out again
DeletedConv == [absent |-> TRUE, workspace_id |-> "", title |-> <<>>]

VARIABLES
  docs,            \* documents table: DocIds -> row or NoDoc
  chunkRows,       \* document_chunks table, per document, in insertion order
  files,           \* upload directory: DocIds -> content of the file or NoFile
  nextDoc,         \* next fresh document id (uuid4 never repeats)
  runs,            \* process_document invocations and their local state
  invoked,         \* number of process_document invocations so far
  openai_api_key,  \* settings.openai_api_key is set
  response,        \* value returned by the request served in the last step
  conversations,   \* conversations table: ConvIds -> row or NoConv
  messages,        \* messages table in created_at order; a message's id is its position
  turns,           \* send_message_streaming generators and their local state
  started,         \* number of send_message_streaming calls so far
  chunker,         \* one call of _chunk_text: its arguments, locals and position
  batcher,         \* one call of _generate_embeddings: its arguments, locals and position
  prompter         \* one call of _build_rag_prompt: its arguments and what it returned

docVars == <<docs, chunkRows, files, nextDoc, runs, invoked, openai_api_key, response>>
chatVars == <<conversations, messages, turns, started>>
pureVars == <<chunker, batcher, prompter>>

\* ---------------------------------------------------------------- helpers
Range(s) == {s[i] : i \in 1..Len(s)}

Min(a, b) == IF a < b THEN a ELSE b

Exists(d) == docs[d] # NoDoc

\* the session's unit of work emits a column in UPDATE only when the value
\* held in memory differs from the one loaded
Flushed(loaded, new, stored) == IF new # loaded THEN new ELSE stored

\* len(s)
RECURSIVE StrLen(_)
StrLen(s) == IF s = <<>> THEN 0 ELSE Head(s).len + StrLen(Tail(s))

\* s[:n]
RECURSIVE Prefix(_, _)
Prefix(s, n) ==
  IF s = <<>> \/ n <= 0 THEN <<>>
  ELSE IF Head(s).len >= n THEN <<[Head(s) EXCEPT !.len = n]>>
  ELSE <<Head(s)>> \o Prefix(Tail(s), n - Head(s).len)

\* Python zip(): pairs up to the shorter of the two lists
Zip(a, b) == [i \in 1..Min(Len(a), Len(b)) |-> <<a[i], b[i]>>]

IdleRun == [pc |-> "idle", document_id |-> 0, loaded_count |-> None,
            loaded_error |-> None, chunks |-> <<>>, embeddings |-> <<>>,
            exc |-> "", rolled_back |-> FALSE, outcome |-> ""]

\* a run that has returned: its locals are gone, what it did is kept
DoneRun(d, outcome) == [IdleRun EXCEPT !.pc = "done", !.document_id = d, !.outcome = outcome]

\* ------------------------------------------------------------------ Init
DocInit ==
  /\ docs = [d \in DocIds |-> NoDoc]
  /\ chunkRows = [d \in DocIds |-> <<>>]
  /\ files = [d \in DocIds |-> NoFile]
  /\ nextDoc = 1
  /\ runs = [r \in RunIds |-> IdleRun]
  /\ invoked = 0
  /\ openai_api_key \in BOOLEAN
  /\ response = NoResponse

IdleTurn == [pc |-> "idle", conversation_id |-> 0, workspace_id |-> "", content |-> <<>>,
             user_message |-> 0, query_embedding |-> None, retrieved |-> FALSE,
             chunks |-> <<>>,
             prompt |-> <<>>, full_response |-> <<>>, assistant_message |-> 0,
             events |-> <<>>, outcome |-> ""]

ChatEmpty ==
  /\ conversations = [c \in ConvIds |-> NoConv]
  /\ messages = <<>>
  /\ turns = [t \in TurnIds |-> IdleTurn]
  /\ started = 0

\* ------------------------------------------------------------- exceptions
\* length of str(exc) for each kind of failure; a parser's message can be
\* longer than the column keeps
ExcLength(kind) == IF kind = "parse" THEN 600 ELSE 40

\* str(exc)[:500], kept as the number of characters stored
ErrorMessage(kind) == Min(ExcLength(kind), ERROR_MESSAGE_CHARS)

\* ------------------------------------------------------ create / delete
\* lines 136-145: the Document row create_document adds
QueuedDocument(ws, file) ==
  [workspace_id |-> ws, title |-> Title(file.filename), status |-> "queued",
   chunk_count |-> None, error_message |-> None]

\* create_document, accepted upload: file written, row added with status queued
CreateDocument(ws, file) ==
  /\ nextDoc <= MaxDocs
  /\ docs' = [docs EXCEPT ![nextDoc] = QueuedDocument(ws, file)]
  /\ files' = [files EXCEPT ![nextDoc] = file]
  /\ response' = NoResponse
  /\ nextDoc' = nextDoc + 1
  /\ UNCHANGED <<chunkRows, runs, invoked, openai_api_key, chatVars, pureVars>>

\* get_document: the row scoped to the workspace, or 404
GetDocumentFound(d, ws) == Exists(d) /\ docs[d].workspace_id = ws

\* delete_document: 404 when not in the workspace; else the file, the row and
\* (cascade) its chunks are removed
DeleteDocument(d, ws) ==
  /\ IF GetDocumentFound(d, ws)
       THEN /\ files' = [files EXCEPT ![d] = NoFile]
            /\ docs' = [docs EXCEPT ![d] = NoDoc]
            /\ chunkRows' = [chunkRows EXCEPT ![d] = <<>>]
       ELSE UNCHANGED <<docs, chunkRows, files>>
  /\ response' = NoResponse
  /\ UNCHANGED <<nextDoc, runs, invoked, openai_api_key, chatVars, pureVars>>

\* ------------------------------------------------------ process_document
SetRun(r, rec) == runs' = [runs EXCEPT ![r] = rec]

\* control enters the except block of process_document
Raise(r, kind, rolledBack) ==
  SetRun(r, [runs[r] EXCEPT !.pc = "failing", !.exc = kind, !.rolled_back = rolledBack])

\* process_document written as an upsert: a missing row is created as processing
ProcStartUpserts(r, d) ==
  /\ r = invoked + 1
  /\ runs[r].pc = "idle"
  /\ invoked' = r
  /\ response' = NoResponse
  /\ UNCHANGED <<chunkRows, files, nextDoc, openai_api_key, chatVars, pureVars>>
  /\ docs' = [docs EXCEPT ![d] = [(IF Exists(d) THEN @ ELSE QueuedDocument("w1", NoFile))
                                    EXCEPT !.status = "processing"]]
  /\ SetRun(r, [runs[r] EXCEPT !.pc = "started", !.document_id = d,
                  !.loaded_count = None, !.loaded_error = None])

\* lines 202-213: select the document; None -> return; else status := processing, commit
ProcStart(r, d) ==
  /\ r = invoked + 1
  /\ runs[r].pc = "idle"
  /\ invoked' = r
  /\ response' = NoResponse
  /\ UNCHANGED <<chunkRows, files, nextDoc, openai_api_key, chatVars, pureVars>>
  /\ IF ~Exists(d)
       THEN /\ SetRun(r, DoneRun(d, "not_found"))
            /\ UNCHANGED docs
       ELSE /\ docs' = [docs EXCEPT ![d].status = "processing"]
            /\ SetRun(r, [runs[r] EXCEPT !.pc = "started", !.document_id = d,
                            !.loaded_count = docs[d].chunk_count,
                            !.loaded_error = docs[d].error_message])

\* lines 202-213 when the store fails: the select or the first commit raises, the
\* status change is rolled back and control enters the except block
ProcStartFails(r, d) ==
  /\ r = invoked + 1
  /\ runs[r].pc = "idle"
  /\ invoked' = r
  /\ response' = NoResponse
  /\ UNCHANGED <<docs, chunkRows, files, nextDoc, openai_api_key, chatVars, pureVars>>
  /\ SetRun(r, [runs[r] EXCEPT !.pc = "failing", !.document_id = d,
                  !.exc = "commit", !.rolled_back = TRUE])

\* lines 215-232: file check, _parse_file, empty-text check, _chunk_text
ProcParseChunk(r) ==
  /\ runs[r].pc = "started"
  /\ response' = NoResponse
  /\ UNCHANGED <<docs, chunkRows, files, nextDoc, invoked, openai_api_key, chatVars, pureVars>>
  /\ LET content == files[runs[r].document_id] IN
       CASE content.kind = "missing" -> Raise(r, "file_not_found", FALSE)
         [] content.kind = "undecodable" -> Raise(r, "parse", FALSE)
         [] content.kind = "blank" -> Raise(r, "empty", FALSE)
         [] content.kind = "untokenizable" -> Raise(r, "chunking", FALSE)
         [] OTHER -> SetRun(r, [runs[r] EXCEPT !.pc = "chunked",
                                  !.chunks = [i \in 1..content.chunks |-> ChunkText(i)]])

\* the provider's vector for a text, named by the text it embeds; 0 is the zero vector
ProviderVector(text) == text[1].id

\* what the embedding provider may answer for n inputs: an error, or a list of vectors
ProviderAnswers(texts) ==
  {[ok |-> FALSE, data |-> <<>>]} \cup
  {[ok |-> TRUE,
    data |-> [i \in 1..m |-> IF i <= Len(texts) THEN ProviderVector(texts[i]) ELSE 0]] :
      m \in {k \in (Len(texts) - 1)..(Len(texts) + 1) : k >= 0}}

\* _generate_embeddings (one batch): zero vectors without a key, else the provider's list
GenerateEmbeddings(texts) ==
  IF ~openai_api_key
    THEN {[ok |-> TRUE, data |-> [i \in 1..Len(texts) |-> 0]]}
    ELSE ProviderAnswers(texts)

\* line 235
ProcEmbed(r) ==
  /\ runs[r].pc = "chunked"
  /\ response' = NoResponse
  /\ UNCHANGED <<docs, chunkRows, files, nextDoc, invoked, openai_api_key, chatVars, pureVars>>
  /\ \E answer \in GenerateEmbeddings(runs[r].chunks) :
       IF answer.ok
         THEN SetRun(r, [runs[r] EXCEPT !.pc = "embedded", !.embeddings = answer.data])
         ELSE Raise(r, "embedding", FALSE)

\* lines 238-247: one DocumentChunk per pair of zip(chunks, embeddings)
NewChunkRows(chunks, embeddings) ==
  LET pairs == Zip(chunks, embeddings) IN
    [i \in 1..Len(pairs) |->
       [chunk_index |-> i - 1, content |-> pairs[i][1], embedding |-> Some(pairs[i][2])]]

\* line 251
ChunkCount(chunks, embeddings) == Len(chunks)

\* the store step on a chunks table without the foreign key to documents: the
\* rows are inserted whether or not the document is still there
ProcStoreNoForeignKey(r) ==
  /\ runs[r].pc = "embedded"
  /\ response' = NoResponse
  /\ UNCHANGED <<files, nextDoc, invoked, openai_api_key, chatVars, pureVars>>
  /\ LET d == runs[r].document_id IN
       /\ chunkRows' = [chunkRows EXCEPT ![d] =
                          @ \o NewChunkRows(runs[r].chunks, runs[r].embeddings)]
       /\ docs' = IF Exists(d) THEN [docs EXCEPT ![d].status = "ready"] ELSE docs
       /\ SetRun(r, DoneRun(d, "ready"))

\* lines 238-253: insert the chunks, status := ready, chunk_count, one commit
ProcStore(r) ==
  /\ runs[r].pc = "embedded"
  /\ response' = NoResponse
  /\ UNCHANGED <<files, nextDoc, invoked, openai_api_key, chatVars, pureVars>>
  /\ LET d == runs[r].document_id IN
       \E committed \in BOOLEAN :
         IF committed /\ Exists(d)
           THEN /\ chunkRows' = [chunkRows EXCEPT ![d] =
                                   @ \o NewChunkRows(runs[r].chunks, runs[r].embeddings)]
                /\ docs' = [docs EXCEPT ![d].status = "ready",
                              ![d].chunk_count =
                                 Flushed(runs[r].loaded_count,
                                         Some(ChunkCount(runs[r].chunks, runs[r].embeddings)), @)]
                /\ SetRun(r, DoneRun(d, "ready"))
           ELSE /\ UNCHANGED <<docs, chunkRows>>
                /\ Raise(r, "commit", TRUE)

\* lines 260-277: the except block; re-select the document, status := failed,
\* error_message := str(exc)[:500], commit; a failure here is logged and dropped
FailedRow(r, row) ==
  [row EXCEPT !.status = "failed",
              !.error_message =
                 IF runs[r].rolled_back
                   THEN Some(ErrorMessage(runs[r].exc))
                   ELSE Flushed(runs[r].loaded_error, Some(ErrorMessage(runs[r].exc)), @)]

\* the except block without its inner try: a failure of the failure write leaves
\* process_document as an exception
ProcFailPropagates(r) ==
  /\ runs[r].pc = "failing"
  /\ response' = NoResponse
  /\ UNCHANGED <<chunkRows, files, nextDoc, invoked, openai_api_key, chatVars, pureVars>>
  /\ LET d == runs[r].document_id IN
       \E committed \in BOOLEAN :
         IF committed /\ Exists(d)
           THEN /\ docs' = [docs EXCEPT ![d] = FailedRow(r, @)]
                /\ SetRun(r, DoneRun(d, "failed"))
           ELSE /\ UNCHANGED docs
                /\ SetRun(r, [DoneRun(d, "propagated") EXCEPT !.pc = "raised"])

ProcFail(r) ==
  /\ runs[r].pc = "failing"
  /\ response' = NoResponse
  /\ UNCHANGED <<chunkRows, files, nextDoc, invoked, openai_api_key, chatVars, pureVars>>
  /\ LET d == runs[r].document_id IN
       \E committed \in BOOLEAN :
         IF committed /\ Exists(d)
           THEN /\ docs' = [docs EXCEPT ![d] = FailedRow(r, @)]
                /\ SetRun(r, DoneRun(d, "failed"))
           ELSE /\ UNCHANGED docs
                /\ SetRun(r, DoneRun(d, "failure_not_recorded"))

\* --------------------------------------------------------------- retrieval
\* pgvector <=> on the abstract vectors
CosineDistance(a, b) == IF a < b THEN b - a ELSE a - b

ChunkIds == {<<d, i>> : d \in DocIds, i \in 1..(MaxRuns * (MaxChunks + 1))}

ChunkRow(c) == chunkRows[c[1]][c[2]]

StoredChunks == {c \in ChunkIds : c[2] <= Len(chunkRows[c[1]])}

\* the WHERE clause without its status test
QualifiesAnyStatus(c, ws) ==
  /\ Exists(c[1])
  /\ docs[c[1]].workspace_id = ws
  /\ ChunkRow(c).embedding # None

\* the WHERE clause of the query (lines 325-329)
Qualifies(c, ws) ==
  /\ Exists(c[1])
  /\ docs[c[1]].workspace_id = ws
  /\ docs[c[1]].status = "ready"
  /\ ChunkRow(c).embedding # None

\* ORDER BY distance LIMIT k; rows at equal distance come in any order
RECURSIVE Nearest(_, _, _)
Nearest(S, q, k) ==
  IF k = 0 \/ S = {} THEN {<<>>}
  ELSE UNION {{<<c>> \o rest : rest \in Nearest(S \ {c}, q, k - 1)} :
                c \in {x \in S : \A y \in S :
                         CosineDistance(ChunkRow(x).embedding[1], q)
                           <= CosineDistance(ChunkRow(y).embedding[1], q)}}

ResultRow(c, q) ==
  [chunk_id |-> c, content |-> ChunkRow(c).content, document_id |-> c[1],
   document_title |-> docs[c[1]].title,
   similarity |-> 1 - CosineDistance(ChunkRow(c).embedding[1], q)]

\* _retrieve_relevant_chunks: every list the query may return
RetrieveRelevantChunks(ws, q, k) ==
  {[i \in 1..Len(s) |-> ResultRow(s[i], q)] :
     s \in Nearest({c \in StoredChunks : Qualifies(c, ws)}, q, k)}

Retrieve(ws, q, k) ==
  /\ \E rows \in RetrieveRelevantChunks(ws, q, k) :
       response' = [op |-> "retrieve", workspace_id |-> ws, rows |-> rows]
  /\ UNCHANGED <<docs, chunkRows, files, nextDoc, runs, invoked, openai_api_key, chatVars, pureVars>>


\* ------------------------------------------------------------ chat texts
SYSTEM_PROMPT == Literal(1, 7471)
NO_CONTEXT_RESPONSE == Literal(2, 222)
EMBEDDING_ERROR_TEXT == Literal(3, 73)
GENERATION_ERROR_TEXT == Literal(4, 70)

\* what a user may ask: the text embeds to vector q and is shorter or longer
\* than a title
Questions == {<<Piece("question", q, n)>> : q \in 0..MaxQuery, n \in {40, 120}}
\* the titles a conversation is created with: the schema default and a chosen one
DEFAULT_TITLE == Literal(10, 16)
ConversationTitles == {DEFAULT_TITLE, Literal(11, 7)}
\* the non-empty deltas the generation provider streams
Tokens == {<<Piece("token", 1, 3)>>, <<Piece("token", 2, 5)>>}

\* s[:n]
FirstN(s, n) == IF Len(s) <= n THEN s ELSE SubSeq(s, 1, n)

\* s[-n:]
LastN(s, n) == IF Len(s) <= n THEN s ELSE SubSeq(s, Len(s) - n + 1, Len(s))

\* s[:-1]
ButLast(s) == IF s = <<>> THEN <<>> ELSE SubSeq(s, 1, Len(s) - 1)

\* ----------------------------------------------------------- SSE events
Event(type, content, sources, message_id) ==
  [type |-> type, content |-> content, sources |-> sources, message_id |-> message_id]
ContentEvent(text) == Event("content", text, <<>>, 0)
SourcesEvent(sources) == Event("sources", <<>>, sources, 0)
\* the done event carrying an id that is not the saved message's
DoneEventOtherId(id) == Event("done", <<>>, <<>>, id + 1)
DoneEvent(id) == Event("done", <<>>, <<>>, id)
ErrorEvent(text) == Event("error", text, <<>>, 0)

\* ---------------------------------------------------------- conversations
\* create_conversation
CreateConversation(ws, title) ==
  /\ \E c \in ConvIds :
       /\ conversations[c] = NoConv
       /\ \A b \in ConvIds : b < c => conversations[b] # NoConv
       /\ conversations' = [conversations EXCEPT ![c] = [workspace_id |-> ws, title |-> title]]
  /\ UNCHANGED <<messages, turns, started, docVars, pureVars>>

\* get_conversation without the workspace in its WHERE clause
GetConversationAnyWorkspace(c, ws) ==
  conversations[c] # NoConv /\ conversations[c] # DeletedConv

\* get_conversation: the row scoped to the workspace, or 404
GetConversationFound(c, ws) ==
  conversations[c] # NoConv /\ conversations[c].workspace_id = ws

\* messages of a conversation, oldest first
ConversationMessages(c) ==
  SelectSeq(messages, LAMBDA m : m.conversation_id = c)

\* -------------------------------------------------- requests by id
\* what the router answers to a request on one entity
Answer(op, id, ws, status, body) ==
  [op |-> op, id |-> id, workspace_id |-> ws, status |-> status, body |-> body]

\* GET /documents/{id}: get_document, 404 or the row
GetDocument(d, ws) ==
  /\ response' = IF GetDocumentFound(d, ws)
                   THEN Answer("get_document", d, ws, 200, <<docs[d]>>)
                   ELSE Answer("get_document", d, ws, 404, <<>>)
  /\ UNCHANGED <<docs, chunkRows, files, nextDoc, runs, invoked, openai_api_key,
                 chatVars, pureVars>>

\* DELETE /documents/{id}: get_document, then the file, the row and (cascade) its chunks
DeleteDocumentById(d, ws) ==
  /\ IF GetDocumentFound(d, ws)
       THEN /\ files' = [files EXCEPT ![d] = NoFile]
            /\ docs' = [docs EXCEPT ![d] = NoDoc]
            /\ chunkRows' = [chunkRows EXCEPT ![d] = <<>>]
            /\ response' = Answer("delete_document", d, ws, 204, <<>>)
       ELSE /\ UNCHANGED <<docs, chunkRows, files>>
            /\ response' = Answer("delete_document", d, ws, 404, <<>>)
  /\ UNCHANGED <<nextDoc, runs, invoked, openai_api_key, chatVars, pureVars>>

\* GET /conversations/{id}/messages: get_conversation, then its messages oldest first
GetConversationMessages(c, ws) ==
  /\ response' = IF GetConversationFound(c, ws)
                   THEN Answer("get_messages", c, ws, 200, ConversationMessages(c))
                   ELSE Answer("get_messages", c, ws, 404, <<>>)
  /\ UNCHANGED <<docs, chunkRows, files, nextDoc, runs, invoked, openai_api_key,
                 chatVars, pureVars>>

\* DELETE /conversations/{id}: get_conversation, then the row and (cascade) its messages
DeleteConversation(c, ws) ==
  /\ IF GetConversationFound(c, ws)
       THEN /\ conversations' = [conversations EXCEPT ![c] = DeletedConv]
            /\ messages' = SelectSeq(messages, LAMBDA m : m.conversation_id # c)
            /\ response' = Answer("delete_conversation", c, ws, 204, <<>>)
       ELSE /\ UNCHANGED <<conversations, messages>>
            /\ response' = Answer("delete_conversation", c, ws, 404, <<>>)
  /\ UNCHANGED <<docs, chunkRows, files, nextDoc, runs, invoked, openai_api_key,
                 turns, started, pureVars>>

\* ------------------------------------------------------- _build_rag_prompt
RECURSIVE ContextParts(_)
ContextParts(chunks) ==
  IF chunks = <<>> THEN <<>>
  ELSE Literal(20, 11) \o Head(chunks).document_title \o Literal(21, 2)
         \o Head(chunks).content
         \o (IF Len(chunks) > 1 THEN Literal(22, 7) ELSE <<>>)
         \o ContextParts(Tail(chunks))

BuildRagPrompt(question, chunks, history) ==
  <<[role |-> "system", content |-> SYSTEM_PROMPT]>>
    \o (IF chunks # <<>>
          THEN <<[role |-> "system", content |-> Literal(23, 34) \o ContextParts(chunks)]>>
          ELSE <<>>)
    \o [i \in 1..Len(LastN(history, HISTORY_MESSAGES)) |->
          [role |-> LastN(history, HISTORY_MESSAGES)[i].role,
           content |-> LastN(history, HISTORY_MESSAGES)[i].content]]
    \o <<[role |-> "user", content |-> question]>>

\* ------------------------------------------------- send_message_streaming
SetTurn(t, rec) == turns' = [turns EXCEPT ![t] = rec]

Emit(t, event) == Append(turns[t].events, event)

\* an exception leaves the generator: the stream ends without another event
Escapes(t, why) == SetTurn(t, [turns[t] EXCEPT !.pc = "raised", !.outcome = why])

\* lines 424-430: the user's message without being written
UserMessageNotSaved(c, content) == <<>>

\* lines 424-430: the user's message row
UserMessage(c, content) ==
  <<[conversation_id |-> c, role |-> "user", content |-> content, sources |-> None]>>

\* lines 433-436 without the test on the number of messages
TitledFromEveryMessage(c, content) ==
  [conversations EXCEPT ![c].title = Prefix(content, TITLE_CHARS)]

\* lines 433-436: conversation.messages is as loaded by get_conversation, before
\* the user message was added
TitledFromFirstMessage(c, content) ==
  IF Len(ConversationMessages(c)) <= 1
    THEN [conversations EXCEPT ![c].title = Prefix(content, TITLE_CHARS)]
    ELSE conversations

\* lines 421-438: get_conversation, save the user message, title from the first
\* message, commit
TurnReceive(t, c, ws, content) ==
  /\ t = started + 1
  /\ turns[t].pc = "idle"
  /\ started' = t
  /\ UNCHANGED <<docVars, pureVars>>
  /\ IF ~GetConversationFound(c, ws)
       THEN /\ SetTurn(t, [turns[t] EXCEPT !.pc = "raised", !.outcome = "not_found",
                             !.conversation_id = c, !.workspace_id = ws,
                             !.content = content])
            /\ UNCHANGED <<conversations, messages>>
       ELSE \E committed \in BOOLEAN :
              IF committed
                THEN /\ messages' = messages \o UserMessage(c, content)
                     /\ conversations' = TitledFromFirstMessage(c, content)
                     /\ SetTurn(t, [turns[t] EXCEPT !.pc = "embedding",
                                      !.conversation_id = c, !.workspace_id = ws,
                                      !.content = content,
                                      !.user_message = Len(messages) + 1])
                ELSE /\ UNCHANGED <<conversations, messages>>
                     /\ SetTurn(t, [turns[t] EXCEPT !.pc = "raised", !.outcome = "store_error",
                                      !.conversation_id = c, !.workspace_id = ws,
                                      !.content = content])

\* lines 443-446 without the return: the turn goes on with no query vector
EmbeddingFailureGoesOn(t) ==
  [turns[t] EXCEPT !.pc = "retrieving", !.outcome = "embedding_error",
                   !.query_embedding = Some(0),
                   !.events = Emit(t, ErrorEvent(EMBEDDING_ERROR_TEXT))]

\* lines 443-447: the except block of the embedding call
EmbeddingFailure(t) ==
  [turns[t] EXCEPT !.pc = "returned", !.outcome = "embedding_error",
                   !.events = Emit(t, ErrorEvent(EMBEDDING_ERROR_TEXT))]

\* lines 441-447: generate_query_embedding is embeddings[0]; any exception
\* becomes one error event and the generator returns
TurnEmbed(t) ==
  /\ turns[t].pc = "embedding"
  /\ UNCHANGED <<conversations, messages, started, docVars, pureVars>>
  /\ \E answer \in GenerateEmbeddings(<<turns[t].content>>) :
       IF answer.ok /\ Len(answer.data) >= 1
         THEN SetTurn(t, [turns[t] EXCEPT !.pc = "retrieving",
                            !.query_embedding = Some(answer.data[1])])
         ELSE SetTurn(t, EmbeddingFailure(t))

\* lines 450-454: retrieval (not inside a try); with no chunks the no-context
\* text is yielded
TurnRetrieve(t) ==
  /\ turns[t].pc = "retrieving"
  /\ UNCHANGED <<conversations, messages, started, docVars, pureVars>>
  /\ \E answered \in BOOLEAN :
       IF answered
         THEN \E rows \in RetrieveRelevantChunks(turns[t].workspace_id,
                                                 turns[t].query_embedding[1], TOP_K_CHUNKS) :
                IF rows = <<>>
                  THEN SetTurn(t, [turns[t] EXCEPT !.pc = "saving_no_context",
                                     !.retrieved = TRUE,
                                     !.events = Emit(t, ContentEvent(NO_CONTEXT_RESPONSE))])
                  ELSE SetTurn(t, [turns[t] EXCEPT !.pc = "loading_history",
                                     !.retrieved = TRUE, !.chunks = rows])
         ELSE Escapes(t, "store_error")

\* lines 457-462 with sources given as an empty list
NoContextMessageEmptySources(c) ==
  [conversation_id |-> c, role |-> "assistant", content |-> NO_CONTEXT_RESPONSE,
   sources |-> Some(<<>>)]

\* lines 457-462
NoContextMessage(c) ==
  [conversation_id |-> c, role |-> "assistant", content |-> NO_CONTEXT_RESPONSE,
   sources |-> None]

\* lines 457-467: save the no-context answer, commit, yield done
TurnSaveNoContext(t) ==
  /\ turns[t].pc = "saving_no_context"
  /\ UNCHANGED <<conversations, started, docVars, pureVars>>
  /\ \E committed \in BOOLEAN :
       IF committed
         THEN /\ messages' = Append(messages, NoContextMessage(turns[t].conversation_id))
              /\ SetTurn(t, [turns[t] EXCEPT !.pc = "returned", !.outcome = "no_context",
                               !.assistant_message = Len(messages) + 1,
                               !.events = Emit(t, DoneEvent(Len(messages) + 1))])
         ELSE /\ UNCHANGED messages
              /\ Escapes(t, "store_error")

\* lines 489-492: the answer given when no key is configured
Fallback(chunks) ==
  Literal(30, 53) \o chunks[1].document_title \o Literal(31, 3)
    \o Prefix(chunks[1].content, SNIPPET_CHARS) \o Literal(32, 3)

\* lines 470-494: load the history (not inside a try), build the prompt; without
\* a key the fallback answer is yielded at once
TurnHistory(t) ==
  /\ turns[t].pc = "loading_history"
  /\ UNCHANGED <<conversations, messages, started, docVars, pureVars>>
  /\ \E answered \in BOOLEAN :
       IF answered
         THEN LET history == ConversationMessages(turns[t].conversation_id)
                  prompt == BuildRagPrompt(turns[t].content, turns[t].chunks, ButLast(history))
              IN IF ~openai_api_key
                   THEN SetTurn(t, [turns[t] EXCEPT !.pc = "saving", !.prompt = prompt,
                                      !.full_response = Fallback(turns[t].chunks),
                                      !.events = Emit(t, ContentEvent(Fallback(turns[t].chunks)))])
                   ELSE SetTurn(t, [turns[t] EXCEPT !.pc = "streaming", !.prompt = prompt])
         ELSE Escapes(t, "store_error")

\* lines 505-509: the next delta with content is appended and yielded
TurnToken(t) ==
  /\ turns[t].pc = "streaming"
  /\ Len(turns[t].full_response) < MaxTokens
  /\ UNCHANGED <<conversations, messages, started, docVars, pureVars>>
  /\ \E token \in Tokens :
       SetTurn(t, [turns[t] EXCEPT !.full_response = @ \o token,
                     !.events = Emit(t, ContentEvent(token))])

\* the except block without its yield
GenerationErrorSwallowed(events) == events

\* lines 511-514: what the except block adds to the stream
GenerationErrorEvents(events) == Append(events, ErrorEvent(GENERATION_ERROR_TEXT))

\* lines 511-515: the provider fails when the stream is opened or while it is read
TurnGenerationFails(t) ==
  /\ turns[t].pc = "streaming"
  /\ UNCHANGED <<conversations, messages, started, docVars, pureVars>>
  /\ SetTurn(t, [turns[t] EXCEPT !.pc = "returned", !.outcome = "generation_error",
                   !.events = GenerationErrorEvents(@)])

\* line 505: the stream ends
TurnStreamEnds(t) ==
  /\ turns[t].pc = "streaming"
  /\ UNCHANGED <<conversations, messages, started, docVars, pureVars>>
  /\ SetTurn(t, [turns[t] EXCEPT !.pc = "saving"])

\* lines 518-526 without the cut of the snippet
BuildSourcesWholeContent(chunks) ==
  [i \in 1..Len(chunks) |->
     [document_id |-> chunks[i].document_id, document_title |-> chunks[i].document_title,
      chunk_id |-> chunks[i].chunk_id, snippet |-> chunks[i].content]]

\* lines 518-526
BuildSources(chunks) ==
  [i \in 1..Len(chunks) |->
     [document_id |-> chunks[i].document_id, document_title |-> chunks[i].document_title,
      chunk_id |-> chunks[i].chunk_id, snippet |-> Prefix(chunks[i].content, SNIPPET_CHARS)]]

\* lines 518-542: build the sources, save the answer, commit (not inside a try),
\* yield sources
TurnSave(t) ==
  /\ turns[t].pc = "saving"
  /\ UNCHANGED <<conversations, started, docVars, pureVars>>
  /\ \E committed \in BOOLEAN :
       IF committed
         THEN /\ messages' = Append(messages,
                   [conversation_id |-> turns[t].conversation_id, role |-> "assistant",
                    content |-> turns[t].full_response,
                    sources |-> Some(BuildSources(turns[t].chunks))])
              /\ SetTurn(t, [turns[t] EXCEPT !.pc = "completing",
                               !.assistant_message = Len(messages) + 1,
                               !.events = Emit(t, SourcesEvent(BuildSources(turns[t].chunks)))])
         ELSE /\ UNCHANGED messages
              /\ Escapes(t, "store_error")

\* lines 543-546: yield done
TurnDone(t) ==
  /\ turns[t].pc = "completing"
  /\ UNCHANGED <<conversations, messages, started, docVars, pureVars>>
  /\ SetTurn(t, [turns[t] EXCEPT !.pc = "returned", !.outcome = "grounded",
                   !.events = Emit(t, DoneEvent(turns[t].assistant_message))])

\* the consumer disconnects: the generator is closed where it is suspended
Suspended == {"embedding", "retrieving", "saving_no_context", "loading_history",
              "streaming", "saving", "completing"}

TurnDisconnect(t) ==
  /\ turns[t].pc \in Suspended
  /\ UNCHANGED <<conversations, messages, started, docVars, pureVars>>
  /\ SetTurn(t, [turns[t] EXCEPT !.pc = "closed"])

\* ------------------------------------------------------------ _chunk_text
\* A text is a sequence of characters: two letters and NL, which stands for
\* the blank line "\n\n" that text.split("\n\n") splits on.
NL == "n"
Chars == {"a", "b", NL}
Texts == UNION {[1..n -> Chars] : n \in 0..MaxTextLen}

\* The encoding has one token per character and, as cl100k_base has for a
\* full stop followed by a blank line, one token for "b" followed by NL.
TokenText(tok) ==
  CASE tok = 1 -> <<"a">>
    [] tok = 2 -> <<"b">>
    [] tok = 3 -> <<NL>>
    [] tok = 4 -> <<"b", NL>>

\* enc.encode: longest match, left to right
RECURSIVE Encode(_)
Encode(text) ==
  IF text = <<>> THEN <<>>
  ELSE IF Len(text) >= 2 /\ text[1] = "b" /\ text[2] = NL
         THEN <<4>> \o Encode(SubSeq(text, 3, Len(text)))
  ELSE IF text[1] = "a" THEN <<1>> \o Encode(Tail(text))
  ELSE IF text[1] = "b" THEN <<2>> \o Encode(Tail(text))
  ELSE <<3>> \o Encode(Tail(text))

\* enc.decode
RECURSIVE Decode(_)
Decode(tokens) ==
  IF tokens = <<>> THEN <<>> ELSE TokenText(Head(tokens)) \o Decode(Tail(tokens))

\* "\n\n".join(texts)
RECURSIVE Join(_)
Join(texts) ==
  IF texts = <<>> THEN <<>>
  ELSE IF Len(texts) = 1 THEN texts[1]
  ELSE texts[1] \o <<NL>> \o Join(Tail(texts))

\* text.split("\n\n") without the empty pieces; cur is the piece being read
RECURSIVE SplitText(_, _)
SplitText(text, cur) ==
  IF text = <<>> THEN (IF cur = <<>> THEN <<>> ELSE <<cur>>)
  ELSE IF Head(text) = NL
         THEN (IF cur = <<>> THEN <<>> ELSE <<cur>>) \o SplitText(Tail(text), <<>>)
  ELSE SplitText(Tail(text), Append(cur, Head(text)))

\* line 336: the paragraphs of the text
Paragraphs(text) == SplitText(text, <<>>)

IdleChunker ==
  [pc |-> "idle", paragraphs |-> <<>>, target_tokens |-> 0, overlap_tokens |-> 0,
   i |-> 0, current_tokens |-> <<>>, current_texts |-> <<>>, carried |-> 0,
   chunks |-> <<>>]

\* the call _chunk_text(text, target_tokens, overlap_tokens) at its for loop
ChunkerCall(text, target, overlap) ==
  [IdleChunker EXCEPT !.pc = "paragraph", !.paragraphs = Paragraphs(text),
                      !.target_tokens = target, !.overlap_tokens = overlap]

\* the dict appended to chunks; tokens is the local list the chunk was cut
\* from and carried the number of its leading tokens kept from the chunk
\* before it
Chunk(text, tokens, method, carried) ==
  [text |-> text, token_count |-> Len(tokens),
   metadata |-> [chunk_method |-> method], tokens |-> tokens, carried |-> carried]

\* lines 356-362: the tokens kept from the end of the flushed chunk
OverlapSeed(tokens, overlap) ==
  IF overlap > 0 /\ Len(tokens) > overlap THEN LastN(tokens, overlap) ELSE <<>>

\* line 376 with the sign of the overlap slipped
RemainingStartPastTarget(target, overlap) == target + overlap

\* line 376 keeping the whole buffer
RemainingStartZero(target, overlap) == 0

\* line 376: remaining_start
RemainingStart(target, overlap) == IF target - overlap > 0 THEN target - overlap ELSE 0

\* lines 342-364: one pass of the for loop up to the while loop
ChunkParagraph ==
  /\ chunker.pc = "paragraph"
  /\ chunker.i < Len(chunker.paragraphs)
  /\ UNCHANGED <<docVars, chatVars, batcher, prompter>>
  /\ LET c == chunker
         paragraph == c.paragraphs[c.i + 1]
         para_tokens == Encode(paragraph)
         flush == c.current_tokens # <<>>
                    /\ Len(c.current_tokens) + Len(para_tokens) > c.target_tokens
         seed == OverlapSeed(c.current_tokens, c.overlap_tokens)
         tokens == (IF flush THEN seed ELSE c.current_tokens) \o para_tokens
         texts == Append(IF ~flush THEN c.current_texts
                         ELSE IF seed = <<>> THEN <<>> ELSE <<Decode(seed)>>,
                         paragraph)
     IN chunker' =
          [c EXCEPT !.i = c.i + 1,
                    !.chunks = IF flush
                                 THEN Append(c.chunks,
                                             Chunk(Join(c.current_texts), c.current_tokens,
                                                   "paragraph_boundary", c.carried))
                                 ELSE c.chunks,
                    !.current_tokens = tokens,
                    !.current_texts = texts,
                    !.carried = IF flush THEN Len(seed) ELSE c.carried,
                    !.pc = IF Len(tokens) > c.target_tokens THEN "splitting" ELSE "paragraph"]

\* line 368 with the slice one token too long
SplitTokensOneMore(tokens, target) == SubSeq(tokens, 1, Min(target + 1, Len(tokens)))

\* line 368: current_tokens[:target_tokens]
SplitTokens(tokens, target) == SubSeq(tokens, 1, Min(target, Len(tokens)))

\* lines 367-378: one pass of the while loop
ChunkForceSplit ==
  /\ chunker.pc = "splitting"
  /\ UNCHANGED <<docVars, chatVars, batcher, prompter>>
  /\ LET c == chunker
         split_tokens == SplitTokens(c.current_tokens, c.target_tokens)
         remaining_start == RemainingStart(c.target_tokens, c.overlap_tokens)
         tokens == SubSeq(c.current_tokens, remaining_start + 1, Len(c.current_tokens))
     IN chunker' =
          [c EXCEPT !.chunks = Append(c.chunks,
                                      Chunk(Decode(split_tokens), split_tokens,
                                            "token_split", c.carried)),
                    !.current_tokens = tokens,
                    !.current_texts = <<Decode(tokens)>>,
                    !.carried = IF c.target_tokens > remaining_start
                                  THEN c.target_tokens - remaining_start ELSE 0,
                    !.pc = IF Len(tokens) > c.target_tokens THEN "splitting" ELSE "paragraph"]

\* lines 380-389: flush what remains and return
ChunkFlushRemaining ==
  /\ chunker.pc = "paragraph"
  /\ chunker.i = Len(chunker.paragraphs)
  /\ UNCHANGED <<docVars, chatVars, batcher, prompter>>
  /\ chunker' =
       [chunker EXCEPT !.chunks = IF chunker.current_tokens # <<>>
                                    THEN Append(chunker.chunks,
                                                Chunk(Join(chunker.current_texts),
                                                      chunker.current_tokens,
                                                      "paragraph_boundary", chunker.carried))
                                    ELSE chunker.chunks,
                       !.pc = "done"]

\* ----------------------------------------------------- _generate_embeddings
\* requests holds the input of every call made to the provider and answers
\* what each call returned
IdleBatcher ==
  [pc |-> "idle", texts |-> <<>>, i |-> 0, all_embeddings |-> <<>>,
   requests |-> <<>>, answers |-> <<>>]

\* the call _generate_embeddings(texts), with n texts
BatcherCall(n) == [IdleBatcher EXCEPT !.pc = "called", !.texts = [k \in 1..n |-> ChunkText(k)]]

\* line 412 with the slice one item too long
BatchOneMore(texts, i) == SubSeq(texts, i + 1, Min(i + BATCH_SIZE + 1, Len(texts)))

\* line 412: texts[i : i + batch_size]
Batch(texts, i) == SubSeq(texts, i + 1, Min(i + BATCH_SIZE, Len(texts)))

\* lines 401-403: no key, one zero vector per text
EmbedWithoutKey ==
  /\ batcher.pc = "called"
  /\ ~openai_api_key
  /\ UNCHANGED <<docVars, chatVars, chunker, prompter>>
  /\ batcher' = [batcher EXCEPT !.pc = "done",
                                !.all_embeddings = [k \in 1..Len(batcher.texts) |-> 0]]

\* lines 411-418: one pass of the for loop; an exception of the provider
\* leaves the function
EmbedBatch ==
  /\ batcher.pc = "called"
  /\ openai_api_key
  /\ batcher.i < Len(batcher.texts)
  /\ UNCHANGED <<docVars, chatVars, chunker, prompter>>
  /\ LET batch == Batch(batcher.texts, batcher.i) IN
       \E answer \in ProviderAnswers(batch) :
         batcher' =
           IF answer.ok
             THEN [batcher EXCEPT !.i = batcher.i + BATCH_SIZE,
                                  !.all_embeddings = batcher.all_embeddings \o answer.data,
                                  !.requests = Append(batcher.requests, batch),
                                  !.answers = Append(batcher.answers, answer.data)]
             ELSE [batcher EXCEPT !.pc = "raised",
                                  !.requests = Append(batcher.requests, batch)]

\* line 420: the loop is over, return all_embeddings
EmbedReturn ==
  /\ batcher.pc = "called"
  /\ openai_api_key
  /\ batcher.i >= Len(batcher.texts)
  /\ UNCHANGED <<docVars, chatVars, chunker, prompter>>
  /\ batcher' = [batcher EXCEPT !.pc = "done"]

\* ------------------------------------------- _build_rag_prompt, as a call
IdlePrompter == [pc |-> "idle", question |-> <<>>, chunks |-> <<>>,
                 conversation_history |-> <<>>, messages |-> <<>>]

\* the rows retrieve_relevant_chunks hands over: none, one or two
PromptChunks ==
  {SubSeq(<<[chunk_id |-> <<1, 1>>, content |-> ChunkText(1), document_id |-> 1,
             document_title |-> Title("notes.md"), similarity |-> 1],
            [chunk_id |-> <<2, 1>>, content |-> ChunkText(2), document_id |-> 2,
             document_title |-> Title("scan.pdf"), similarity |-> 0]>>, 1, n) : n \in 0..2}

\* n earlier messages of a conversation, oldest first, each with a text of its own
HistoryOf(n) ==
  [i \in 1..n |-> [conversation_id |-> 1,
                   role |-> IF i % 2 = 1 THEN "user" ELSE "assistant",
                   content |-> <<Piece("message", i, 10 + i)>>,
                   sources |-> None]]

PrompterCall(question, chunks, history) ==
  [IdlePrompter EXCEPT !.pc = "called", !.question = question, !.chunks = chunks,
                       !.conversation_history = history]

\* lines 356-391: the call returns the messages array
BuildPrompt ==
  /\ prompter.pc = "called"
  /\ UNCHANGED <<docVars, chatVars, chunker, batcher>>
  /\ prompter' = [prompter EXCEPT !.pc = "returned",
                                  !.messages = BuildRagPrompt(prompter.question, prompter.chunks,
                                                              prompter.conversation_history)]

PureIdle == chunker = IdleChunker /\ batcher = IdleBatcher /\ prompter = IdlePrompter

\* every call with 0 <= overlap_tokens < target_tokens
ChunkInit ==
  /\ DocInit
  /\ ChatEmpty
  /\ batcher = IdleBatcher
  /\ prompter = IdlePrompter
  /\ chunker \in {ChunkerCall(text, target, overlap) :
                    text \in Texts, target \in 1..MaxTarget, overlap \in 0..(MaxTarget - 1)}
  /\ chunker.overlap_tokens < chunker.target_tokens

ChunkNext == ChunkParagraph \/ ChunkForceSplit \/ ChunkFlushRemaining

\* every call with 0..MaxTexts texts, with and without a key
BatchInit ==
  /\ DocInit
  /\ ChatEmpty
  /\ chunker = IdleChunker
  /\ prompter = IdlePrompter
  /\ batcher \in {BatcherCall(n) : n \in 0..MaxTexts}

BatchNext == EmbedWithoutKey \/ EmbedBatch \/ EmbedReturn

\* --------------------------------------------------------- upload_document
ALLOWED_EXTENSIONS ==
  {"pdf", "md", "txt", "csv", "json", "html", "htm", "yaml", "yml", "log", "rst", "xml"}
MAX_FILE_SIZE_BYTES == 50 * 1024 * 1024

\* the files a client may send: the ones that process, and ones with an
\* upper-case name, a type that is not allowed, no extension and no name
UploadFiles ==
  Uploads \cup
    {[filename |-> "SLIDES.PDF", kind |-> "undecodable", chunks |-> 0],
     [filename |-> "report.docx", kind |-> "text", chunks |-> 1],
     [filename |-> "README", kind |-> "text", chunks |-> 1],
     [filename |-> "", kind |-> "text", chunks |-> 1]}

\* len(content) of an upload: empty, one byte, the limit, one byte over it
UploadSizes == {0, 1, MAX_FILE_SIZE_BYTES, MAX_FILE_SIZE_BYTES + 1}

UploadRequests == {[file |-> f, size |-> sz] : f \in UploadFiles, sz \in UploadSizes}

\* line 100: file.filename or "untitled"
Filename(file) == IF file.filename = "" THEN "untitled" ELSE file.filename

\* line 101: filename.rsplit(".", 1)[-1].lower() if "." in filename else ""
Extension(filename) ==
  CASE filename = "scan.pdf" -> "pdf"
    [] filename = "SLIDES.PDF" -> "pdf"
    [] filename = "blank.txt" -> "txt"
    [] filename = "dump.log" -> "log"
    [] filename = "notes.md" -> "md"
    [] filename = "report.docx" -> "docx"
    [] OTHER -> ""

\* lines 103-123 without the test for an empty file
ValidationErrorNoEmptyTest(request) ==
  IF Extension(Filename(request.file)) \notin ALLOWED_EXTENSIONS THEN "unsupported"
  ELSE IF request.size > MAX_FILE_SIZE_BYTES THEN "too_large"
  ELSE "none"

\* lines 103-123: the 400 create_document raises, or "none"
ValidationError(request) ==
  IF Extension(Filename(request.file)) \notin ALLOWED_EXTENSIONS THEN "unsupported"
  ELSE IF request.size > MAX_FILE_SIZE_BYTES THEN "too_large"
  ELSE IF request.size = 0 THEN "empty"
  ELSE "none"

\* routers/documents.py upload_document: create_document, then the
\* processing of the new document is added to the background tasks
UploadDocument(ws, request) ==
  /\ nextDoc <= MaxDocs
  /\ invoked < MaxRuns
  /\ UNCHANGED <<chunkRows, openai_api_key, chatVars, pureVars>>
  /\ IF ValidationError(request) # "none"
       THEN /\ response' = [op |-> "upload", request |-> request, status |-> 400,
                            detail |-> ValidationError(request), document_id |-> 0]
            /\ UNCHANGED <<docs, files, nextDoc, runs, invoked>>
       ELSE /\ docs' = [docs EXCEPT ![nextDoc] = QueuedDocument(ws, request.file)]
            /\ files' = [files EXCEPT ![nextDoc] = request.file]
            /\ nextDoc' = nextDoc + 1
            /\ runs' = [runs EXCEPT ![invoked + 1] =
                          [IdleRun EXCEPT !.pc = "scheduled", !.document_id = nextDoc]]
            /\ invoked' = invoked + 1
            /\ response' = [op |-> "upload", request |-> request, status |-> 201,
                            detail |-> "none", document_id |-> nextDoc]

UploadNext ==
  \/ \E ws \in Workspaces, request \in UploadRequests : UploadDocument(ws, request)
  \/ \E d \in DocIds, ws \in Workspaces : DeleteDocument(d, ws)

\* ------------------------------------------------------- knowledge base
\* the store the chat turns read: "notes" uploaded to w1 and processed into
\* two chunks, "blank" uploaded to w2 and failed at the empty-text check
ProcessedStore ==
  /\ docs = [d \in DocIds |->
       CASE d = 1 -> [workspace_id |-> "w1", title |-> Title("notes.md"), status |-> "ready",
                      chunk_count |-> Some(2), error_message |-> None]
         [] d = 2 -> [workspace_id |-> "w2", title |-> Title("blank.txt"), status |-> "failed",
                      chunk_count |-> None, error_message |-> Some(ErrorMessage("empty"))]
         [] OTHER -> NoDoc]
  /\ chunkRows = [d \in DocIds |->
       IF d = 1
         THEN NewChunkRows(<<ChunkText(1), ChunkText(2)>>,
                           IF openai_api_key THEN <<1, 2>> ELSE <<0, 0>>)
         ELSE <<>>]
  /\ files = [d \in DocIds |->
       CASE d = 1 -> [filename |-> "notes.md", kind |-> "text", chunks |-> 2]
         [] d = 2 -> [filename |-> "blank.txt", kind |-> "blank", chunks |-> 0]
         [] OTHER -> NoFile]
  /\ nextDoc = 3
  /\ runs = [r \in RunIds |->
       CASE r = 1 -> DoneRun(1, "ready")
         [] r = 2 -> DoneRun(2, "failed")
         [] OTHER -> IdleRun]
  /\ invoked = 2
  /\ response = NoResponse

ChatInit == openai_api_key \in BOOLEAN /\ ProcessedStore /\ ChatEmpty /\ PureIdle

ChatNext ==
  \/ \E ws \in Workspaces, title \in ConversationTitles : CreateConversation(ws, title)
  \/ \E t \in TurnIds, c \in ConvIds, ws \in Workspaces, content \in Questions :
       TurnReceive(t, c, ws, content)
  \/ \E t \in TurnIds : TurnEmbed(t)
  \/ \E t \in TurnIds : TurnRetrieve(t)
  \/ \E t \in TurnIds : TurnSaveNoContext(t)
  \/ \E t \in TurnIds : TurnHistory(t)
  \/ \E t \in TurnIds : TurnToken(t)
  \/ \E t \in TurnIds : TurnGenerationFails(t)
  \/ \E t \in TurnIds : TurnStreamEnds(t)
  \/ \E t \in TurnIds : TurnSave(t)
  \/ \E t \in TurnIds : TurnDone(t)
  \/ \E t \in TurnIds : TurnDisconnect(t)

\* ------------------------------------------------------------------- Spec
Init == DocInit /\ ChatEmpty /\ PureIdle

Next ==
  \/ \E ws \in Workspaces, file \in Uploads : CreateDocument(ws, file)
  \/ \E d \in DocIds, ws \in Workspaces : DeleteDocument(d, ws)
  \/ \E r \in RunIds, d \in DocIds : ProcStart(r, d)
  \/ \E r \in RunIds : ProcParseChunk(r)
  \/ \E r \in RunIds : ProcEmbed(r)
  \/ \E r \in RunIds : ProcStore(r)
  \/ \E r \in RunIds : ProcFail(r)
  \/ \E ws \in Workspaces, q \in 0..MaxQuery, k \in 1..MaxTopK : Retrieve(ws, q, k)

vars == <<docVars, chatVars, pureVars>>

Spec == Init /\ [][Next]_vars

ChatSpec == ChatInit /\ [][ChatNext]_vars

ChunkSpec == ChunkInit /\ [][ChunkNext]_vars

\* the call runs on: a synchronous function is never left in the middle
ChunkLiveSpec == ChunkInit /\ [][ChunkNext]_vars /\ WF_vars(ChunkNext)

BatchSpec == BatchInit /\ [][BatchNext]_vars

UploadSpec == Init /\ [][UploadNext]_vars

\* every call of _build_rag_prompt with a question, up to two chunks and up to
\* MaxHistory earlier messages
PromptInit ==
  /\ DocInit
  /\ ChatEmpty
  /\ chunker = IdleChunker
  /\ batcher = IdleBatcher
  /\ prompter \in {PrompterCall(q, ch, HistoryOf(n)) :
                     q \in Questions, ch \in PromptChunks, n \in 0..MaxHistory}

PromptNext == BuildPrompt

PromptSpec == PromptInit /\ [][PromptNext]_vars

\* the requests that name one document or one conversation, on a store that holds
\* documents of two workspaces
AccessNext ==
  \/ \E ws \in Workspaces, title \in ConversationTitles : CreateConversation(ws, title)
  \/ \E d \in DocIds, ws \in Workspaces : GetDocument(d, ws)
  \/ \E d \in DocIds, ws \in Workspaces : DeleteDocumentById(d, ws)
  \/ \E c \in ConvIds, ws \in Workspaces : GetConversationMessages(c, ws)
  \/ \E c \in ConvIds, ws \in Workspaces : DeleteConversation(c, ws)
  \/ \E t \in TurnIds, c \in ConvIds, ws \in Workspaces, content \in Questions :
       TurnReceive(t, c, ws, content)

AccessSpec == ChatInit /\ [][AccessNext]_vars

\* process_document with every store operation allowed to fail, the first one included
ProcessNext ==
  \/ \E ws \in Workspaces, file \in Uploads : CreateDocument(ws, file)
  \/ \E d \in DocIds, ws \in Workspaces : DeleteDocument(d, ws)
  \/ \E r \in RunIds, d \in DocIds : ProcStart(r, d)
  \/ \E r \in RunIds, d \in DocIds : ProcStartFails(r, d)
  \/ \E r \in RunIds : ProcParseChunk(r)
  \/ \E r \in RunIds : ProcEmbed(r)
  \/ \E r \in RunIds : ProcStore(r)
  \/ \E r \in RunIds : ProcFail(r)

ProcessSpec == Init /\ [][ProcessNext]_vars

\* ============================================================ properties
\* -------------------------------------------------------------------- C1
\* C1: in every committed state a document has persisted chunks if and only
\* if its status is ready.
C1_ChunksIffReady ==
  \A d \in DocIds :
    Exists(d) => ((Len(chunkRows[d]) > 0) <=> (docs[d].status = "ready"))

\* -------------------------------------------------------------------- C2
AllowedTransitions ==
  {<<"queued", "processing">>, <<"processing", "ready">>, <<"processing", "failed">>}

\* C2: a document's status only ever changes along queued->processing,
\* processing->ready or processing->failed.
C2_StatusMonotonic ==
  [][\A d \in DocIds :
       (Exists(d) /\ docs'[d] # NoDoc /\ docs'[d].status # docs[d].status)
         => <<docs[d].status, docs'[d].status>> \in AllowedTransitions]_vars

\* -------------------------------------------------------------------- C3
\* the stages C3 names: file load, extraction, empty-text check, chunking,
\* embedding, and the final chunk/status commit
FailureStages == {"file_not_found", "parse", "empty", "chunking", "embedding", "commit"}

\* C3: when a run of process_document fails at any stage and its except block
\* has recorded the failure, the document has status failed, no chunk rows, a
\* null chunk_count and a non-null error_message.  (The run whose write of
\* status failed is itself lost is not counted here.)
C3_FailureLeavesFailedAndEmpty ==
  [][\A r \in RunIds :
       (runs[r].pc = "failing" /\ runs[r].exc \in FailureStages
          /\ runs'[r].pc = "done" /\ runs'[r].outcome = "failed")
         => LET d == runs[r].document_id IN
              /\ docs'[d].status = "failed"
              /\ chunkRows'[d] = <<>>
              /\ docs'[d].chunk_count = None
              /\ docs'[d].error_message # None]_vars

\* -------------------------------------------------------------------- C4
\* C4: chunk_count is written only at the processing->ready transition, at
\* most once, and whenever it is non-null it equals the number of chunk rows
\* of the document.
C4_ChunkCountExact ==
  /\ [](\A d \in DocIds :
          (Exists(d) /\ docs[d].chunk_count # None)
            => docs[d].chunk_count = Some(Len(chunkRows[d])))
  /\ [][\A d \in DocIds :
          (Exists(d) /\ docs'[d] # NoDoc /\ docs'[d].chunk_count # docs[d].chunk_count)
            => /\ docs[d].chunk_count = None
               /\ docs[d].status = "processing"
               /\ docs'[d].status = "ready"]_vars

\* -------------------------------------------------------------------- C5
\* C5: every row _retrieve_relevant_chunks returns belongs to a document of
\* the requested workspace whose status is ready, and has a non-null
\* embedding.  (response holds the rows the query of the last step returned,
\* read from the store as it is in this state.)
C5_RetrievalScoped ==
  response.op = "retrieve" =>
    \A i \in 1..Len(response.rows) :
      LET c == response.rows[i].chunk_id IN
        /\ Exists(c[1])
        /\ docs[c[1]].workspace_id = response.workspace_id
        /\ docs[c[1]].status = "ready"
        /\ c \in StoredChunks
        /\ ChunkRow(c).embedding # None

\* a query returned rows while the store also held a chunk, with an
\* embedding, of a ready document of another workspace
C5_Witness ==
  /\ response.op = "retrieve"
  /\ Len(response.rows) > 0
  /\ \E c \in StoredChunks :
       /\ docs[c[1]].workspace_id # response.workspace_id
       /\ docs[c[1]].status = "ready"
       /\ ChunkRow(c).embedding # None

\* -------------------------------------------------------------------- C6
Terminal(e) == e.type \in {"done", "error"}

\* content events, then at most one sources event, then at most one terminal
\* event, and nothing after it
WellOrdered(ev) ==
  \A i \in 1..(Len(ev) - 1) :
    /\ ev[i].type = "content" \/ (ev[i].type = "sources" /\ ev[i + 1].type = "done")
    /\ ev[i + 1].type = "content" => ev[i].type = "content"

\* C6: the events of a turn are content events, then at most one sources
\* event, then the terminal event, and a turn that has ended without the
\* consumer leaving has emitted exactly one terminal event, as its last event.
C6_OneTerminalEvent ==
  \A t \in TurnIds :
    turns[t].outcome # "not_found" =>
      /\ WellOrdered(turns[t].events)
      /\ turns[t].pc \in {"returned", "raised"} =>
           /\ turns[t].events # <<>>
           /\ Terminal(turns[t].events[Len(turns[t].events)])

\* -------------------------------------------------------------------- C7
UserMessageStored(t) ==
  /\ turns[t].user_message \in 1..Len(messages)
  /\ messages[turns[t].user_message] =
       [conversation_id |-> turns[t].conversation_id, role |-> "user",
        content |-> turns[t].content, sources |-> None]

\* C7: once a turn on an existing conversation is at or past the embedding
\* call, or has emitted an event, its user message is a committed row, and
\* it stays one however the turn ends.
C7_UserMessageDurable ==
  \A t \in TurnIds :
    (\/ turns[t].pc \in Suspended \cup {"returned", "closed"}
     \/ turns[t].events # <<>>
     \/ turns[t].query_embedding # None)
      => UserMessageStored(t)

\* turns have ended by an embedding error, a generation error, a store error
\* after the receipt, or the consumer leaving, with the user message stored
C7_Witness ==
  \E t \in TurnIds, u \in TurnIds :
    /\ turns[t].outcome \in {"embedding_error", "generation_error"}
    /\ UserMessageStored(t)
    /\ turns[u].pc = "closed"
    /\ UserMessageStored(u)

\* -------------------------------------------------------------------- C8
AssistantIds == {i \in 1..Len(messages) : messages[i].role = "assistant"}

\* every assistant message was saved by one turn, and no turn saved two
OneAssistantMessageEach ==
  /\ AssistantIds = {turns[t].assistant_message :
                       t \in {u \in TurnIds : turns[u].assistant_message # 0}}
  /\ \A t \in TurnIds, u \in TurnIds :
       (t # u /\ turns[t].assistant_message # 0)
         => turns[t].assistant_message # turns[u].assistant_message

ZeroChunks(t) == turns[t].retrieved /\ turns[t].chunks = <<>>

RECURSIVE EmittedText(_)
EmittedText(ev) ==
  IF ev = <<>> THEN <<>>
  ELSE (IF Head(ev).type = "content" THEN Head(ev).content ELSE <<>>) \o EmittedText(Tail(ev))

\* C9: a turn that retrieved n >= 1 chunks and completed has saved exactly
\* one assistant message; its content is the emitted tokens joined, and its
\* sources are n entries, the i-th with the document id, document title and
\* chunk id of the i-th retrieved chunk and a snippet that is the first 200
\* characters at most of that chunk's content.
C9_GroundedTurn ==
  /\ OneAssistantMessageEach
  /\ \A t \in TurnIds :
       turns[t].outcome = "grounded" =>
         LET m == messages[turns[t].assistant_message]
             n == Len(turns[t].chunks)
         IN /\ turns[t].assistant_message \in AssistantIds
            /\ n >= 1
            /\ m.conversation_id = turns[t].conversation_id
            /\ m.content = EmittedText(turns[t].events)
            /\ m.sources # None
            /\ Len(m.sources[1]) = n
            /\ \A i \in 1..n :
                 LET src == m.sources[1][i]
                     row == turns[t].chunks[i]
                 IN /\ src.chunk_id = row.chunk_id
                    /\ src.document_id = row.document_id
                    /\ src.document_title = row.document_title
                    /\ StrLen(src.snippet) = Min(StrLen(row.content), SNIPPET_CHARS)
                    /\ src.snippet = Prefix(row.content, StrLen(src.snippet))

\* a completed turn with two retrieved chunks, one longer than a snippet, and
\* two streamed tokens
C9_Witness ==
  \E t \in TurnIds :
    /\ turns[t].outcome = "grounded"
    /\ Len(turns[t].chunks) = 2
    /\ Len(turns[t].full_response) = 2
    /\ \E i \in 1..2 : StrLen(turns[t].chunks[i].content) > SNIPPET_CHARS

\* ------------------------------------------------------------------- C10
\* C10: a turn whose generation failed has returned, its events are the
\* content events emitted before the failure followed by one error event,
\* and it has saved no assistant message.
C10_GenerationFailure ==
  /\ OneAssistantMessageEach
  /\ \A t \in TurnIds :
       turns[t].outcome = "generation_error" =>
         LET ev == turns[t].events IN
           /\ turns[t].pc = "returned"
           /\ ev # <<>>
           /\ ev[Len(ev)].type = "error"
           /\ \A i \in 1..(Len(ev) - 1) : ev[i].type = "content"
           /\ turns[t].assistant_message = 0

\* generation failed before the first token in one turn and after a content
\* event in another
C10_Witness ==
  \E t \in TurnIds, u \in TurnIds :
    /\ turns[t].outcome = "generation_error" /\ Len(turns[t].events) = 1
    /\ turns[u].outcome = "generation_error" /\ Len(turns[u].events) > 1

\* ------------------------------------------------------------------- C11
\* C11: the step in which the query embedding fails emits one error event,
\* the only event of the turn, and returns; it writes nothing, so the
\* messages are those before the step, the turn's user message among them;
\* the turn has not retrieved or generated and has saved no assistant
\* message, and from then on it takes no step.
C11_EmbeddingFailure ==
  [][\A t \in TurnIds :
       /\ (turns[t].outcome # "embedding_error" /\ turns'[t].outcome = "embedding_error")
            => /\ turns[t].pc = "embedding"
               /\ turns'[t].pc = "returned"
               /\ turns'[t].events = <<ErrorEvent(EMBEDDING_ERROR_TEXT)>>
               /\ ~turns'[t].retrieved
               /\ turns'[t].chunks = <<>>
               /\ turns'[t].full_response = <<>>
               /\ turns'[t].assistant_message = 0
               /\ messages' = messages
               /\ conversations' = conversations
               /\ turns'[t].user_message \in 1..Len(messages)
               /\ messages[turns'[t].user_message] = UserMessage(turns[t].conversation_id,
                                                                 turns[t].content)[1]
       /\ turns[t].outcome = "embedding_error"
            => /\ turns'[t] = turns[t]
               /\ SubSeq(messages', 1, Len(messages)) = messages]_vars

\* the embedding failed in a turn on a conversation that already held the
\* messages of an earlier turn
C11_Witness ==
  \E t \in TurnIds :
    /\ turns[t].outcome = "embedding_error"
    /\ \E i \in 1..(turns[t].user_message - 1) :
         /\ messages[i].conversation_id = turns[t].conversation_id
         /\ messages[i].role = "assistant"

\* ------------------------------------------------------------------- C12
\* C12: every chunk's token_count is the number of tokens the tokenizer
\* gives for the chunk's text.
C12_TokenCountIsTokenizerCount ==
  \A k \in 1..Len(chunker.chunks) :
    chunker.chunks[k].token_count = Len(Encode(chunker.chunks[k].text))

\* ------------------------------------------------------------------- C13
\* C13: a token_split chunk is appended only while the paragraph being
\* processed has, alone, more than target_tokens tokens.
C13_SplitOnlyOversized ==
  [][(Len(chunker'.chunks) > Len(chunker.chunks)
        /\ chunker'.chunks[Len(chunker'.chunks)].metadata.chunk_method = "token_split")
       => Len(Encode(chunker.paragraphs[chunker.i])) > chunker.target_tokens]_vars

RECURSIVE ParagraphTokens(_, _)
ParagraphTokens(paragraphs, n) ==
  IF n = 0 THEN <<>> ELSE ParagraphTokens(paragraphs, n - 1) \o Encode(paragraphs[n])

\* the tokens of chunks 1..n without the tokens each kept from the chunk
\* before it
RECURSIVE NewTokens(_, _)
NewTokens(chunks, n) ==
  IF n = 0 THEN <<>>
  ELSE NewTokens(chunks, n - 1)
         \o SubSeq(chunks[n].tokens, chunks[n].carried + 1, Len(chunks[n].tokens))

\* C15: the tokens a chunk keeps from its predecessor are at most
\* overlap_tokens and are the predecessor's last tokens; with them removed,
\* the chunks of a finished call are exactly the tokens of the paragraphs in
\* order, and while the call runs the chunks and the pending tokens are
\* exactly the tokens of the paragraphs read so far.
C15_ChunksCoverText ==
  LET c == chunker IN
    /\ \A k \in 1..Len(c.chunks) :
         /\ c.chunks[k].carried <= c.overlap_tokens
         /\ c.chunks[k].carried < Len(c.chunks[k].tokens)
         /\ k = 1 => c.chunks[k].carried = 0
         /\ k > 1 => SubSeq(c.chunks[k].tokens, 1, c.chunks[k].carried)
                       = LastN(c.chunks[k - 1].tokens, c.chunks[k].carried)
    /\ c.pc = "done"
         => NewTokens(c.chunks, Len(c.chunks)) = ParagraphTokens(c.paragraphs, Len(c.paragraphs))
    /\ c.pc \in {"paragraph", "splitting"}
         => NewTokens(c.chunks, Len(c.chunks))
              \o SubSeq(c.current_tokens, c.carried + 1, Len(c.current_tokens))
              = ParagraphTokens(c.paragraphs, c.i)

\* a finished call with three chunks or more, one starting with tokens kept
\* after a flush and one with tokens kept after a split
C15_Witness ==
  /\ chunker.pc = "done"
  /\ Len(chunker.chunks) >= 3
  /\ \E k \in 2..Len(chunker.chunks) :
       /\ chunker.chunks[k].carried > 0
       /\ chunker.chunks[k - 1].metadata.chunk_method = "paragraph_boundary"
  /\ \E k \in 2..Len(chunker.chunks) :
       /\ chunker.chunks[k].carried > 0
       /\ chunker.chunks[k - 1].metadata.chunk_method = "token_split"

\* ------------------------------------------------------------------- C16
\* the batches 1..n of a list, joined
RECURSIVE Joined(_, _)
Joined(lists, n) == IF n = 0 THEN <<>> ELSE Joined(lists, n - 1) \o lists[n]

\* C16: the calls made so far are the consecutive batches of the input, each
\* of 1 to 100 texts, in input order, and all_embeddings is their answers
\* joined in that order; a call that has returned made one call per batch,
\* and when every answer had one vector per text of its batch it returns N
\* vectors, the i-th the provider's vector for the i-th text.  Without a key
\* no call is made and N zero vectors are returned.
C16_EmbeddingsInInputOrder ==
  LET b == batcher
      n == Len(b.texts)
  IN /\ \A j \in 1..Len(b.requests) :
          /\ b.requests[j] = SubSeq(b.texts, BATCH_SIZE * (j - 1) + 1,
                                    Min(BATCH_SIZE * j, n))
          /\ Len(b.requests[j]) \in 1..BATCH_SIZE
     /\ openai_api_key => b.all_embeddings = Joined(b.answers, Len(b.answers))
     /\ (b.pc = "done" /\ openai_api_key)
          => /\ Len(b.requests) = Len(b.answers)
             /\ Joined(b.requests, Len(b.requests)) = b.texts
             /\ (\A j \in 1..Len(b.answers) : Len(b.answers[j]) = Len(b.requests[j]))
                  => /\ Len(b.all_embeddings) = n
                     /\ \A k \in 1..n : b.all_embeddings[k] = ProviderVector(b.texts[k])
     /\ (b.pc = "done" /\ ~openai_api_key)
          => /\ b.requests = <<>>
             /\ Len(b.all_embeddings) = n
             /\ \A k \in 1..n : b.all_embeddings[k] = 0

\* a call with more than two batches of texts has returned, every answer
\* having had one vector per text
C16_Witness ==
  /\ batcher.pc = "done"
  /\ openai_api_key
  /\ Len(batcher.texts) > 2 * BATCH_SIZE
  /\ Len(batcher.requests) = 3
  /\ \A j \in 1..Len(batcher.answers) : Len(batcher.answers[j]) = Len(batcher.requests[j])

\* ------------------------------------------------------------------- C17
\* C17: the chunk_index values of a document's chunk rows are unique and are
\* 0..n-1, the row with index i holds the i-th chunk the chunker produced,
\* and its embedding is the vector returned for that chunk's text.
C17_ChunkIndicesUniqueContiguous ==
  \A d \in DocIds :
    Exists(d) =>
      LET rows == chunkRows[d] IN
        /\ \A i \in 1..Len(rows), j \in 1..Len(rows) :
             i # j => rows[i].chunk_index # rows[j].chunk_index
        /\ {rows[i].chunk_index : i \in 1..Len(rows)} = 0..(Len(rows) - 1)
        /\ \A i \in 1..Len(rows) :
             /\ rows[i].content = ChunkText(rows[i].chunk_index + 1)
             /\ rows[i].embedding
                  = Some(IF openai_api_key THEN ProviderVector(rows[i].content) ELSE 0)

\* ------------------------------------------------------------------- C18
\* C18: an upload that is empty, larger than 50 MiB or of a type that is not
\* allowed is answered 400 and changes no document row, no stored file and
\* no scheduled task; any other upload is answered 201, adds exactly one
\* document, with status queued and a null chunk_count, stores its file and
\* schedules one processing task for it.
C18_UploadValidation ==
  [][(response'.op = "upload" /\ (response' # response \/ nextDoc' # nextDoc))
       => LET request == response'.request
              tag == Extension(Filename(request.file))
          IN IF request.size = 0 \/ request.size > 50 * 1024 * 1024
                  \/ tag \notin ALLOWED_EXTENSIONS
               THEN /\ response'.status = 400
                    /\ UNCHANGED <<docs, chunkRows, files, nextDoc, runs, invoked>>
               ELSE /\ response'.status = 201
                    /\ \E d \in DocIds :
                         /\ docs[d] = NoDoc
                         /\ docs'[d] # NoDoc
                         /\ docs'[d].status = "queued"
                         /\ docs'[d].chunk_count = None
                         /\ \A e \in DocIds \ {d} : docs'[e] = docs[e] /\ files'[e] = files[e]
                         /\ files'[d] = request.file
                         /\ chunkRows' = chunkRows
                         /\ \E r \in RunIds :
                              /\ runs[r].pc = "idle"
                              /\ runs'[r].pc = "scheduled"
                              /\ runs'[r].document_id = d
                              /\ \A q \in RunIds \ {r} : runs'[q] = runs[q]]_vars

\* an empty file has just been refused, after another upload was accepted
C18_Witness ==
  /\ response.op = "upload"
  /\ response.status = 400
  /\ response.detail = "empty"
  /\ \E d \in DocIds : Exists(d) /\ docs[d].status = "queued"

\* ------------------------------------------------------------------- C19
\* C19: a conversation created with a title of its own (not the default)
\* keeps it: while it has no message its title is the one it was created
\* with, and no step changes that title.
C19_ExplicitTitleKept ==
  [][\A c \in ConvIds :
       (conversations[c] # NoConv /\ conversations'[c] # NoConv
          /\ ConversationMessages(c) = <<>>
          /\ conversations[c].title # DEFAULT_TITLE)
         => conversations'[c].title = conversations[c].title]_vars

\* the failures of extraction, chunking and embedding, as the except block sees them
StageFailures == {"file_not_found", "parse", "empty", "chunking", "embedding"}

C21_MissingDocumentNoOp ==
  [][\A r \in RunIds :
       (runs[r].pc = "idle" /\ runs'[r] # runs[r] /\ ~Exists(runs'[r].document_id))
         => /\ runs'[r] = DoneRun(runs'[r].document_id, "not_found")
            /\ docs' = docs
            /\ chunkRows' = chunkRows
            /\ files' = files
            /\ nextDoc' = nextDoc]_vars

\* a run on an id whose document was deleted has returned, while another document
\* with stored chunks is in the store
C21_Witness ==
  \E r \in RunIds, d \in DocIds :
    /\ runs[r].pc = "done" /\ runs[r].outcome = "not_found"
    /\ runs[r].document_id # d
    /\ runs[r].document_id < nextDoc
    /\ Exists(d) /\ chunkRows[d] # <<>>

\* -------------------------------------------------------------------- C22
\* the titles and contents of the chunks, in order
RECURSIVE ChunkListing(_)
ChunkListing(chunks) ==
  IF chunks = <<>> THEN <<>>
  ELSE Head(chunks).document_title \o Head(chunks).content \o ChunkListing(Tail(chunks))

\* a text without its fixed wording
Quoted(text) == SelectSeq(text, LAMBDA p : p.kind # "literal")

\* C22: _build_rag_prompt returns the system instruction, then one context message
\* listing every chunk after its document title if and only if there are chunks,
\* then the last min(10, len(history)) history messages oldest first with role and
\* content only, then the question as a user message; so its length is
\* 2 + (1 if chunks else 0) + min(10, len(history))
C22_PromptLayout ==
  prompter.pc = "returned" =>
    LET out == prompter.messages
        history == prompter.conversation_history
        n == Len(history)
        k == Min(10, n)
        c == IF prompter.chunks # <<>> THEN 1 ELSE 0
    IN /\ Len(out) = 2 + c + k
       /\ out[1] = [role |-> "system", content |-> SYSTEM_PROMPT]
       /\ c = 1 => /\ out[2].role = "system"
                   /\ Quoted(out[2].content) = ChunkListing(prompter.chunks)
       /\ \A i \in 1..k :
            out[1 + c + i] = [role |-> history[n - k + i].role,
                              content |-> history[n - k + i].content]
       /\ out[Len(out)] = [role |-> "user", content |-> prompter.question]

\* the call had two chunks and more than ten earlier messages, and has returned
C22_Witness ==
  /\ prompter.pc = "returned"
  /\ Len(prompter.chunks) = 2
  /\ Len(prompter.conversation_history) > 10

\* -------------------------------------------------------------------- C23
\* the row is there and belongs to the workspace
OwnedBy(row, ws) == row # NoDoc /\ row.workspace_id = ws

\* C23: fetching or deleting a document, listing or deleting a conversation, or
\* sending a message, with an id that is absent from the caller's workspace or
\* owned by another one, fails with not found, returns no entity, and leaves the
\* documents, chunks, files, conversations and messages as they were
C23_NotFoundChangesNothing ==
  [][/\ (response' # response
           /\ response'.op \in {"get_document", "delete_document",
                                "get_messages", "delete_conversation"}
           /\ ~OwnedBy(IF response'.op \in {"get_document", "delete_document"}
                         THEN docs[response'.id] ELSE conversations[response'.id],
                       response'.workspace_id))
          => /\ response'.status = 404
             /\ response'.body = <<>>
             /\ UNCHANGED <<docs, chunkRows, files, conversations, messages>>
     /\ \A t \in TurnIds :
          (turns[t].pc = "idle" /\ turns'[t] # turns[t]
             /\ ~OwnedBy(conversations[turns'[t].conversation_id], turns'[t].workspace_id))
            => /\ turns'[t].pc = "raised"
               /\ turns'[t].outcome = "not_found"
               /\ turns'[t].events = <<>>
               /\ UNCHANGED <<docs, chunkRows, files, conversations, messages>>]_vars

\* a delete of a conversation that holds a message was refused to the other workspace
C23_Witness ==
  /\ response.op = "delete_conversation"
  /\ response.status = 404
  /\ conversations[response.id] # NoConv
  /\ conversations[response.id] # DeletedConv
  /\ conversations[response.id].workspace_id # response.workspace_id
  /\ ConversationMessages(response.id) # <<>>

\* -------------------------------------------------------------------- C24
\* C24: with 0 < overlap_tokens < target_tokens, every chunk after the first
\* starts with tokens kept from its predecessor, and they are the predecessor's
\* last overlap_tokens tokens (all of them when it has fewer), after a flush at a
\* paragraph boundary as well as between the pieces of a split
C24_EveryChunkOverlaps ==
  chunker.overlap_tokens > 0 =>
    \A k \in 2..Len(chunker.chunks) :
      LET prev == chunker.chunks[k - 1].tokens
          n == Min(chunker.overlap_tokens, Len(prev))
      IN /\ chunker.chunks[k].carried = n
         /\ SubSeq(chunker.chunks[k].tokens, 1, n) = LastN(prev, n)

\* -------------------------------------------------------------------- C25
\* C25: with target_tokens >= 1 and 0 <= overlap_tokens < target_tokens, each
\* pass of the force-split loop shortens the buffer by target_tokens -
\* overlap_tokens tokens, every call returns, and a text without a paragraph
\* returns no chunk
C25_ChunkingTerminates ==
  /\ [][chunker.pc = "splitting"
          => /\ Len(chunker'.current_tokens)
                  = Len(chunker.current_tokens)
                      - (chunker.target_tokens - chunker.overlap_tokens)
             /\ Len(chunker'.current_tokens) < Len(chunker.current_tokens)]_vars
  /\ []((chunker.pc = "done" /\ chunker.paragraphs = <<>>) => chunker.chunks = <<>>)
  /\ <>(chunker.pc = "done")

\* a call has returned after two passes of the force-split loop in a row
C25_Witness ==
  /\ chunker.pc = "done"
  /\ \E k \in 1..(Len(chunker.chunks) - 1) :
       /\ chunker.chunks[k].metadata.chunk_method = "token_split"
       /\ chunker.chunks[k + 1].metadata.chunk_method = "token_split"

\* -------------------------------------------------------------------- C26
\* C26: from the commit of status processing until the final commit of a run,
\* the committed row of its document, if it still exists, has status processing
\* and the document has no chunk
C26_ProcessingWhileRunning ==
  \A r \in RunIds :
    (runs[r].pc \in {"started", "chunked", "embedded"} /\ Exists(runs[r].document_id))
      => /\ docs[runs[r].document_id].status = "processing"
         /\ chunkRows[runs[r].document_id] = <<>>

\* -------------------------------------------------------------------- C27
\* C27: when a turn has saved its user message, the title of a conversation
\* that had at most one message before the turn is the first 100 characters of
\* the user's text, the whole text when it is shorter; the title of one that
\* had two or more is as it was
C27_TitleFromFirstMessage ==
  [][\A t \in TurnIds :
       (turns[t].pc = "idle" /\ turns'[t].pc = "embedding")
         => LET c == turns'[t].conversation_id
                content == turns'[t].content
                before == Len(ConversationMessages(c))
            IN /\ before <= 1
                    => /\ conversations'[c].title = Prefix(content, 100)
                       /\ StrLen(conversations'[c].title) = Min(StrLen(content), 100)
                       /\ StrLen(content) <= 100 => conversations'[c].title = content
               /\ before >= 2 => conversations'[c].title = conversations[c].title]_vars

\* a short question was received on a conversation that already held two messages,
\* and the title is still the first 100 characters of the long first question
C27_Witness ==
  \E t \in TurnIds :
    /\ turns[t].user_message >= 3
    /\ StrLen(turns[t].content) < 100
    /\ StrLen(conversations[turns[t].conversation_id].title) = 100

\* -------------------------------------------------------------------- C28
\* the first n rows of the messages table that belong to conversation c, without
\* the row of id own, oldest first
RECURSIVE MessagesWithout(_, _, _)
MessagesWithout(c, own, n) ==
  IF n = 0 THEN <<>>
  ELSE MessagesWithout(c, own, n - 1)
         \o (IF messages[n].conversation_id = c /\ n # own THEN <<messages[n]>> ELSE <<>>)

\* C28: the prompt a grounded turn builds is the one built from its question, its
\* chunks and every message of the conversation persisted so far except the turn's
\* own user message, oldest first, whatever other turns have written meanwhile
C28_HistoryExcludesOwnMessage ==
  [][\A t \in TurnIds :
       (turns[t].pc = "loading_history" /\ turns'[t].prompt # <<>>)
         => turns'[t].prompt =
              BuildRagPrompt(turns[t].content, turns[t].chunks,
                             MessagesWithout(turns[t].conversation_id,
                                             turns[t].user_message, Len(messages)))]_vars

\* -------------------------------------------------------------------- C29
\* C29: a done event of a turn carries the id of the assistant message that turn
\* has committed to its conversation, and a sources event is emitted only once
\* that message is committed and carries the sources stored in it
C29_DoneAfterCommit ==
  \A t \in TurnIds :
    \A i \in 1..Len(turns[t].events) :
      LET e == turns[t].events[i] IN
        /\ e.type \in {"done", "sources"}
             => /\ turns[t].assistant_message \in 1..Len(messages)
                /\ messages[turns[t].assistant_message].role = "assistant"
                /\ messages[turns[t].assistant_message].conversation_id
                     = turns[t].conversation_id
        /\ e.type = "done" => e.message_id = turns[t].assistant_message
        /\ e.type = "sources"
             => messages[turns[t].assistant_message].sources = Some(e.sources)

\* a turn on the grounded path has emitted sources and then done, naming a message
\* saved after the messages of another turn
C29_Witness ==
  \E t \in TurnIds :
    /\ turns[t].outcome = "grounded"
    /\ \E i \in 1..Len(turns[t].events) : turns[t].events[i].type = "sources"
    /\ turns[t].events[Len(turns[t].events)].type = "done"
    /\ turns[t].assistant_message > 2

\* -------------------------------------------------------------------- C30
\* C30: in every interleaving of delete_document with runs of process_document on
\* the same document, a deleted document stays deleted (no status write brings
\* the row back), no chunk row refers to it, and no retrieval returns a chunk of it
C30_DeletedStaysDeleted ==
  /\ [](\A d \in DocIds :
          ~Exists(d)
            => /\ chunkRows[d] = <<>>
               /\ response.op = "retrieve"
                    => \A i \in 1..Len(response.rows) : response.rows[i].document_id # d)
  /\ [][\A d \in DocIds : (d < nextDoc /\ ~Exists(d)) => docs'[d] = NoDoc]_vars

\* a document was deleted while a run on it was past its start; that run has
\* finished, and a run on another document has stored chunks
C30_Witness ==
  \E r \in RunIds, d \in DocIds :
    /\ runs[r].pc = "done"
    /\ runs[r].outcome = "failure_not_recorded"
    /\ runs[r].document_id = d
    /\ d < nextDoc
    /\ ~Exists(d)
    /\ \E e \in DocIds : chunkRows[e] # <<>>

====
